---- MODULE Spec2Model ----
(***************************************************************************)
(* A model of aws_grobid: launch_grobid_api_instance and the helpers it    *)
(* calls (src/aws_grobid/core.py), invoked by two callers (threads or      *)
(* processes) against one EC2 account, each caller one launch after the    *)
(* other, and the package import of src/aws_grobid/__init__.py.            *)
(*                                                                         *)
(* The EC2 provider is the environment.  It answers every request either   *)
(* with the documented result or with a request error (throttling, missing *)
(* permission, ...), it moves a pending instance to running or to          *)
(* terminated on its own, and it keeps security groups and instances per   *)
(* region.                                                                 *)
(***************************************************************************)
EXTENDS Integers, Sequences, FiniteSets, TLC

VARIABLES
    vpcs,               \* regions of the account that have a default VPC
    ami_data,           \* the rows of static/ubuntu-amis.json, in file order
    groups,             \* provider: security groups, the group id is the index
    instances,          \* provider: instances, the instance id is the index
    pc,                 \* per caller: the place in launch_grobid_api_instance
    args,               \* per caller: the arguments of the running launch
    security_group_id,  \* per caller: local of launch_grobid_api_instance
    vm_image_id,        \* per caller: local of launch_instance
    instance,           \* per caller: the boto3 Instance resource (id, cached data)
    err,                \* per caller: the exception that left the launch
    result,             \* per caller: the returned EC2InstanceDetails
    stages,             \* per caller: the stages the running launch has passed
    calls,              \* per caller: the provider requests the launch has issued
    launches,           \* the number of launches entered so far
    package             \* state of "import aws_grobid"

vars == <<vpcs, ami_data, groups, instances, pc, args, security_group_id,
          vm_image_id, instance, err, result, stages, calls, launches, package>>

-----------------------------------------------------------------------------
(* Bounds and inputs *)

\* Invocations of launch_grobid_api_instance in one behaviour.
MaxLaunches == 2

\* Longest generated instance type name.
MaxTypeLen == 2

Callers == {"a", "b"}

Regions == {"us-west-2", "eu-west-1"}

GroupNames == {"grobid-sg", "other-sg"}

SshPort == 22
HttpsPort == 443
DefaultApiPort == 8060
\* A second port for the API, next to the default.
OtherApiPort == DefaultApiPort + 10

ApiPorts == {DefaultApiPort, OtherApiPort}

\* Instance types as Python strings: sequences of characters.
M6a4xlarge == <<"m", "6", "a", ".", "4", "x", "l", "a", "r", "g", "e">>
M6gLarge == <<"m", "6", "g", ".", "l", "a", "r", "g", "e">>
G4dnXlarge == <<"g", "4", "d", "n", ".", "x", "l", "a", "r", "g", "e">>
T3Micro == <<"t", "3", ".", "m", "i", "c", "r", "o">>

TypeAlphabet == {"g", "m", "."}

\* Every string over the alphabet of at most MaxTypeLen characters.
GeneratedTypes ==
    UNION {[1 .. n -> TypeAlphabet] : n \in 0 .. MaxTypeLen}

InstanceTypes == {M6a4xlarge, M6gLarge, G4dnXlarge, T3Micro} \cup GeneratedTypes

\* Python's None, as an attribute the provider has not set.
None == <<"None">>

\* A launch request: the arguments of launch_grobid_api_instance that decide
\* what the launch asks of the provider.
AllRequests ==
    [region : Regions, instance_type : InstanceTypes,
     api_port : ApiPorts, security_group_name : GroupNames]

\* The requests with the default region, instance type and group name
\* (core.py 231-237) and any port.
DefaultRequests ==
    {r \in AllRequests :
        /\ r.region = "us-west-2"
        /\ r.instance_type = M6a4xlarge
        /\ r.security_group_name = "grobid-sg"}

Row(r, a, id) == [region |-> r, arch |-> a, ami_id |-> id]

\* Every region with both architectures.
TableFull ==
    << Row("us-west-2", "amd64", "ami-usw2-amd64"),
       Row("us-west-2", "arm64", "ami-usw2-arm64"),
       Row("eu-west-1", "amd64", "ami-euw1-amd64"),
       Row("eu-west-1", "arm64", "ami-euw1-arm64") >>

\* eu-west-1 has no arm64 row; us-west-2 has a second, later amd64 row.
TablePartial ==
    << Row("eu-west-1", "amd64", "ami-euw1-amd64"),
       Row("us-west-2", "arm64", "ami-usw2-arm64"),
       Row("us-west-2", "amd64", "ami-usw2-amd64"),
       Row("us-west-2", "amd64", "ami-usw2-amd64-old") >>

AmiTables == {TableFull, TablePartial}

-----------------------------------------------------------------------------
(* Pure helpers of core.py *)

\* s.split(".")[0]: the part of s before its first ".", all of s without one.
RECURSIVE SplitFirst(_)
SplitFirst(s) ==
    IF s = <<>> \/ Head(s) = "." THEN <<>>
    ELSE <<Head(s)>> \o SplitFirst(Tail(s))

\* c in s
Contains(s, c) == \E i \in DOMAIN s : s[i] = c

selected_arch_whole(instance_type) ==
    IF Contains(instance_type, "g") THEN "arm64" ELSE "amd64"

\* core.py 138-142
selected_arch(instance_type) ==
    IF Contains(SplitFirst(instance_type), "g") THEN "arm64" ELSE "amd64"

\* core.py 147-154: the first row of the table for (region, arch), "" without one.
RECURSIVE find_ami(_, _, _)
find_ami(rows, region, arch) ==
    IF rows = <<>> THEN ""
    ELSE IF Head(rows).region = region /\ Head(rows).arch = arch
         THEN Head(rows).ami_id
         ELSE find_ami(Tail(rows), region, arch)

\* core.py 290, 298: f"http://{public_ip_address}:{api_port}"
api_url_of(public_ip, api_port) == <<"http://", public_ip, ":", api_port>>

\* core.py 70-89: the IpPermissions of the one authorize request, in order.
IpPermissions(api_port) == <<SshPort, HttpsPort, api_port>>

-----------------------------------------------------------------------------
(* The provider *)

Range(s) == {s[i] : i \in DOMAIN s}

GroupsNamed(region, name) ==
    {g \in DOMAIN groups : groups[g].region = region /\ groups[g].name = name}

\* AuthorizeSecurityGroupIngress, all or nothing: one rule of the request that
\* the group already holds rejects the whole request.
AuthorizeAtomic(rules, perms) ==
    IF \E i \in DOMAIN perms : perms[i] \in Range(rules)
    THEN [rules |-> rules, code |-> "InvalidPermission.Duplicate"]
    ELSE [rules |-> rules \o perms, code |-> "ok"]

\* AuthorizeSecurityGroupIngress, rule by rule (the simulated provider): the
\* rules before the first one the group already holds are added.
RECURSIVE AuthorizeInOrder(_, _)
AuthorizeInOrder(rules, perms) ==
    IF perms = <<>> THEN [rules |-> rules, code |-> "ok"]
    ELSE IF Head(perms) \in Range(rules)
         THEN [rules |-> rules, code |-> "InvalidPermission.Duplicate"]
         ELSE AuthorizeInOrder(Append(rules, Head(perms)), Tail(perms))

PublicIp(i) == <<"198.51.100.", i>>
PublicDns(i) == <<"ec2-", i, ".compute.amazonaws.com">>

\* DescribeInstances / RunInstances: the attributes of instance i the code reads.
InstanceData(i) ==
    [state |-> instances[i].state,
     instance_type |-> instances[i].instance_type,
     public_ip_address |-> instances[i].public_ip_address,
     public_dns_name |-> instances[i].public_dns_name]

-----------------------------------------------------------------------------
(* src/aws_grobid/__init__.py *)

\* The names core.py binds at module level.
CoreNames ==
    {"STATIC_DIR", "DEFAULT_STARTUP_SCRIPT_TEMPLATE_PATH", "UBUNTU_AMI_DATA_PATH",
     "log", "get_default_vpc_id", "create_security_group",
     "add_security_group_rules", "get_image_default_snapshot_id",
     "launch_instance", "EC2InstanceDetails", "launch_grobid_api_instance"}

\* __init__.py 13: from .core import deploy_and_wait_for_ready, terminate_instance
ImportedNames == {"deploy_and_wait_for_ready", "terminate_instance"}

\* import aws_grobid: a name core.py does not bind raises ImportError and the
\* package is not loaded.
ImportPackage ==
    /\ package = "unloaded"
    /\ package' = IF ImportedNames \subseteq CoreNames THEN "loaded" ELSE "ImportError"
    /\ UNCHANGED <<vpcs, ami_data, groups, instances, pc, args, security_group_id,
                   vm_image_id, instance, err, result, stages, calls, launches>>

-----------------------------------------------------------------------------
(* Control flow shared by the steps of a launch *)

NoInstance ==
    [id |-> 0,
     data |-> [state |-> "", instance_type |-> <<>>,
               public_ip_address |-> None, public_dns_name |-> None]]

\* No EC2InstanceDetails: the launch has not returned.
NoResult ==
    [instance_id |-> 0, instance_type |-> <<>>, public_ip |-> None,
     public_dns |-> None, api_url |-> <<>>]

\* An exception no frame of the launch handles: it reaches the caller.
Raise(p, e) ==
    /\ pc' = [pc EXCEPT ![p] = "failed"]
    /\ err' = [err EXCEPT ![p] = e]

Goto(p, label) ==
    /\ pc' = [pc EXCEPT ![p] = label]
    /\ UNCHANGED err

\* One request of the launch to the provider and the code of its answer.
Request(p, api, code) ==
    calls' = [calls EXCEPT ![p] = Append(@, [api |-> api, code |-> code])]

Stage(p, s) == stages' = [stages EXCEPT ![p] = Append(@, s)]

\* The handler without its duplicate case: every ClientError is raised again.
create_security_group_except_raise(p, code) == Raise(p, code)

\* core.py 51-59: the handler of create_security_group.
create_security_group_except(p, code) ==
    IF code = "InvalidGroup.Duplicate"
    THEN Goto(p, "csg_describe")
    ELSE Raise(p, code)

\* The handler without its test of the code: every ClientError is raised again.
add_security_group_rules_except_raise(p, code) == Raise(p, code)

\* The handler as a bare "except: pass": every ClientError is dropped.
add_security_group_rules_except_pass(p, code) == Goto(p, "launch_instance")

\* core.py 91-94: the handler of add_security_group_rules.
add_security_group_rules_except(p, code) ==
    IF code # "InvalidPermission.Duplicate"
    THEN Raise(p, code)
    ELSE Goto(p, "launch_instance")

-----------------------------------------------------------------------------
(* launch_grobid_api_instance, one action per provider request *)

\* core.py 230-244: a caller enters launch_grobid_api_instance.
Call(p, req) ==
    /\ pc[p] \in {"idle", "done", "failed"}
    /\ launches < MaxLaunches
    /\ launches' = launches + 1
    /\ package # "unloaded"      \* core is reached through the import of the package
    /\ args' = [args EXCEPT ![p] = req]
    /\ pc' = [pc EXCEPT ![p] = "get_default_vpc_id"]
    /\ security_group_id' = [security_group_id EXCEPT ![p] = 0]
    /\ vm_image_id' = [vm_image_id EXCEPT ![p] = ""]
    /\ instance' = [instance EXCEPT ![p] = NoInstance]
    /\ err' = [err EXCEPT ![p] = ""]
    /\ result' = [result EXCEPT ![p] = NoResult]
    /\ stages' = [stages EXCEPT ![p] = <<>>]
    /\ calls' = [calls EXCEPT ![p] = <<>>]
    /\ UNCHANGED <<vpcs, ami_data, groups, instances, package>>

\* core.py 27-36 called from core.py 48: the argument of the create request is
\* evaluated first.  ValueError is no ClientError: the handler lets it pass.
get_default_vpc_id(p) ==
    /\ pc[p] = "get_default_vpc_id"
    /\ \/ /\ Request(p, "DescribeVpcs", "RequestError")
          /\ create_security_group_except(p, "RequestError")
       \/ /\ args[p].region \notin vpcs
          /\ Request(p, "DescribeVpcs", "ok")
          /\ Raise(p, "ValueError: No default VPC found in this region")
       \/ /\ args[p].region \in vpcs
          /\ Request(p, "DescribeVpcs", "ok")
          /\ Goto(p, "create_security_group")
    /\ UNCHANGED <<vpcs, ami_data, groups, instances, args, security_group_id,
                   vm_image_id, instance, result, stages, launches, package>>

\* core.py 45-50: the create request and the return of the new id.
create_security_group(p) ==
    /\ pc[p] = "create_security_group"
    /\ \/ /\ Request(p, "CreateSecurityGroup", "RequestError")
          /\ create_security_group_except(p, "RequestError")
          /\ UNCHANGED <<groups, security_group_id, stages>>
       \/ /\ GroupsNamed(args[p].region, args[p].security_group_name) # {}
          /\ Request(p, "CreateSecurityGroup", "InvalidGroup.Duplicate")
          /\ create_security_group_except(p, "InvalidGroup.Duplicate")
          /\ UNCHANGED <<groups, security_group_id, stages>>
       \/ /\ GroupsNamed(args[p].region, args[p].security_group_name) = {}
          /\ Request(p, "CreateSecurityGroup", "ok")
          /\ groups' = Append(groups, [region |-> args[p].region,
                                       name |-> args[p].security_group_name,
                                       rules |-> <<>>])
          /\ security_group_id' = [security_group_id EXCEPT ![p] = Len(groups) + 1]
          /\ Stage(p, "security-group-ready")
          /\ Goto(p, "add_security_group_rules")
    /\ UNCHANGED <<vpcs, ami_data, instances, args, vm_image_id, instance, result,
                   launches, package>>

\* The lookup without its GroupNames filter: the first group of the region.
describe_security_groups_unfiltered(p) ==
    /\ pc[p] = "csg_describe"
    /\ Request(p, "DescribeSecurityGroups", "ok")
    /\ security_group_id' = [security_group_id EXCEPT ![p] =
          CHOOSE g \in DOMAIN groups :
              /\ groups[g].region = args[p].region
              /\ \A h \in DOMAIN groups : groups[h].region = args[p].region => g <= h]
    /\ Stage(p, "security-group-ready")
    /\ Goto(p, "add_security_group_rules")
    /\ UNCHANGED <<vpcs, ami_data, groups, instances, args, vm_image_id, instance,
                   result, launches, package>>

\* core.py 53-57: the lookup by name after a duplicate.  An error of the lookup
\* is raised inside the handler and reaches the caller.
describe_security_groups(p) ==
    /\ pc[p] = "csg_describe"
    /\ \/ /\ Request(p, "DescribeSecurityGroups", "RequestError")
          /\ Raise(p, "RequestError")
          /\ UNCHANGED <<security_group_id, stages>>
       \/ /\ GroupsNamed(args[p].region, args[p].security_group_name) # {}
          /\ Request(p, "DescribeSecurityGroups", "ok")
          /\ security_group_id' = [security_group_id EXCEPT ![p] =
                CHOOSE g \in GroupsNamed(args[p].region, args[p].security_group_name) :
                    \A h \in GroupsNamed(args[p].region, args[p].security_group_name) :
                        g <= h]
          /\ Stage(p, "security-group-ready")
          /\ Goto(p, "add_security_group_rules")
    /\ UNCHANGED <<vpcs, ami_data, groups, instances, args, vm_image_id, instance,
                   result, launches, package>>

\* The answers the provider can give to the authorize request of caller p.
AuthorizeAnswers(p) ==
    LET rules == groups[security_group_id[p]].rules
        perms == IpPermissions(args[p].api_port)
    IN  {AuthorizeAtomic(rules, perms), AuthorizeInOrder(rules, perms),
         [rules |-> rules, code |-> "RequestError"]}

\* core.py 61-94: the one authorize request and its handler.
add_security_group_rules(p) ==
    /\ pc[p] = "add_security_group_rules"
    /\ \E answer \in AuthorizeAnswers(p) :
          /\ Request(p, "AuthorizeSecurityGroupIngress", answer.code)
          /\ groups' = [groups EXCEPT ![security_group_id[p]].rules = answer.rules]
          /\ IF answer.code = "ok"
             THEN Goto(p, "launch_instance")
             ELSE add_security_group_rules_except(p, answer.code)
    /\ stages' = [stages EXCEPT ![p] =
                    IF pc'[p] = "failed" THEN @ ELSE Append(@, "rules-ready")]
    /\ UNCHANGED <<vpcs, ami_data, instances, args, security_group_id, vm_image_id,
                   instance, result, launches, package>>

\* core.py 96-106 called from core.py 173: an argument of the create request,
\* evaluated before it.  The image is there, or the answer holds no image, or
\* the request fails.
get_image_default_snapshot_id(p) ==
    /\ \/ /\ Request(p, "DescribeImages", "RequestError")
          /\ Raise(p, "RequestError")
       \/ /\ Request(p, "DescribeImages", "ok")
          /\ Raise(p, "ValueError: No image found")
       \/ /\ Request(p, "DescribeImages", "ok")
          /\ Goto(p, "create_instances")

\* launch_instance without its "Handle not found" test: the scan result is
\* passed on as it is.
launch_instance_unchecked(p) ==
    /\ pc[p] = "launch_instance"
    /\ vm_image_id' = [vm_image_id EXCEPT ![p] =
          find_ami(ami_data, args[p].region, selected_arch(args[p].instance_type))]
    /\ Stage(p, "image-resolved")
    /\ get_image_default_snapshot_id(p)
    /\ UNCHANGED <<vpcs, ami_data, groups, instances, args, security_group_id,
                   instance, result, launches, package>>

\* core.py 122-176: the architecture of the instance type and the scan of the
\* image table, where no row is a ValueError before any request; then the
\* arguments of the create request.
launch_instance(p) ==
    /\ pc[p] = "launch_instance"
    /\ LET ami == find_ami(ami_data, args[p].region, selected_arch(args[p].instance_type))
       IN  /\ vm_image_id' = [vm_image_id EXCEPT ![p] = ami]
           /\ IF ami = ""
              THEN /\ Raise(p, "ValueError: No AMI found")
                   /\ UNCHANGED <<stages, calls>>
              ELSE /\ Stage(p, "image-resolved")
                   /\ get_image_default_snapshot_id(p)
    /\ UNCHANGED <<vpcs, ami_data, groups, instances, args, security_group_id,
                   instance, result, launches, package>>

\* core.py 163-216: the create request; the resource it returns caches the
\* attributes of the answer, a pending instance without a public address.
create_instances(p) ==
    /\ pc[p] = "create_instances"
    /\ \/ /\ Request(p, "RunInstances", "RequestError")
          /\ Raise(p, "RequestError")
          /\ UNCHANGED <<instances, instance, stages>>
       \/ /\ Request(p, "RunInstances", "ok")
          /\ instances' = Append(instances,
                [state |-> "pending",
                 region |-> args[p].region,
                 image_id |-> vm_image_id[p],
                 instance_type |-> args[p].instance_type,
                 group |-> security_group_id[p],
                 public_ip_address |-> None,
                 public_dns_name |-> None])
          /\ instance' = [instance EXCEPT ![p] =
                [id |-> Len(instances) + 1,
                 data |-> [state |-> "pending",
                           instance_type |-> args[p].instance_type,
                           public_ip_address |-> None,
                           public_dns_name |-> None]]]
          /\ Stage(p, "launch-submitted")
          /\ Goto(p, "wait_until_running")
    /\ UNCHANGED <<vpcs, ami_data, groups, args, security_group_id, vm_image_id,
                   result, launches, package>>

\* The wait left out: the launch goes on whatever the state of the instance.
wait_until_running_unchecked(p) ==
    /\ pc[p] = "wait_until_running"
    /\ Request(p, "DescribeInstances", "ok")
    /\ Stage(p, "running")
    /\ Goto(p, "load")
    /\ UNCHANGED <<vpcs, ami_data, groups, instances, args, security_group_id,
                   vm_image_id, instance, result, launches, package>>

\* core.py 281: the waiter polls the provider; it returns on "running" and
\* raises on a final state, on a request error or when its attempts run out.
wait_until_running(p) ==
    /\ pc[p] = "wait_until_running"
    /\ \/ /\ instances[instance[p].id].state = "running"
          /\ Request(p, "DescribeInstances", "ok")
          /\ Stage(p, "running")
          /\ Goto(p, "load")
       \/ /\ instances[instance[p].id].state # "running"
          /\ Request(p, "DescribeInstances", "ok")
          /\ Raise(p, "WaiterError")
          /\ UNCHANGED stages
       \/ /\ Request(p, "DescribeInstances", "RequestError")
          /\ Raise(p, "WaiterError")
          /\ UNCHANGED stages
    /\ UNCHANGED <<vpcs, ami_data, groups, instances, args, security_group_id,
                   vm_image_id, instance, result, launches, package>>

\* The reload left out: the resource keeps the attributes of the create answer.
load_stale(p) ==
    /\ pc[p] = "load"
    /\ Stage(p, "reloaded")
    /\ Goto(p, "return")
    /\ UNCHANGED <<vpcs, ami_data, groups, instances, args, security_group_id,
                   vm_image_id, instance, result, calls, launches, package>>

\* core.py 284: instance.load() replaces the cached attributes.
load(p) ==
    /\ pc[p] = "load"
    /\ \/ /\ Request(p, "DescribeInstances", "RequestError")
          /\ Raise(p, "RequestError")
          /\ UNCHANGED <<instance, stages>>
       \/ /\ Request(p, "DescribeInstances", "ok")
          /\ instance' = [instance EXCEPT ![p].data = InstanceData(instance[p].id)]
          /\ Stage(p, "reloaded")
          /\ Goto(p, "return")
    /\ UNCHANGED <<vpcs, ami_data, groups, instances, args, security_group_id,
                   vm_image_id, result, launches, package>>

\* core.py 292-299
EC2InstanceDetails(p) ==
    [instance_id |-> instance[p].id,
     instance_type |-> instance[p].data.instance_type,
     public_ip |-> instance[p].data.public_ip_address,
     public_dns |-> instance[p].data.public_dns_name,
     api_url |-> api_url_of(instance[p].data.public_ip_address, args[p].api_port)]

\* core.py 286-299: the result is built from the cached attributes.
Return(p) ==
    /\ pc[p] = "return"
    /\ result' = [result EXCEPT ![p] = EC2InstanceDetails(p)]
    /\ Stage(p, "details-returned")
    /\ Goto(p, "done")
    /\ UNCHANGED <<vpcs, ami_data, groups, instances, args, security_group_id,
                   vm_image_id, instance, calls, launches, package>>

-----------------------------------------------------------------------------
(* The provider's own steps.  A launch reads the state of its own instance  *)
(* and of no other, and only in its wait and its reload: the model follows *)
(* an instance while its launch waits for it.                              *)

Awaited(i) ==
    \E p \in Callers : instance[p].id = i /\ pc[p] = "wait_until_running"

\* A pending instance starts: it is running and has its public address.
InstanceRuns(i) ==
    /\ Awaited(i)
    /\ instances[i].state = "pending"
    /\ instances' = [instances EXCEPT ![i].state = "running",
                                      ![i].public_ip_address = PublicIp(i),
                                      ![i].public_dns_name = PublicDns(i)]
    /\ UNCHANGED <<vpcs, ami_data, groups, pc, args, security_group_id, vm_image_id,
                   instance, err, result, stages, calls, launches, package>>

\* A pending instance fails to start (no capacity, a volume limit).
InstanceFails(i) ==
    /\ Awaited(i)
    /\ instances[i].state = "pending"
    /\ instances' = [instances EXCEPT ![i].state = "terminated"]
    /\ UNCHANGED <<vpcs, ami_data, groups, pc, args, security_group_id, vm_image_id,
                   instance, err, result, stages, calls, launches, package>>

-----------------------------------------------------------------------------
(* Specification *)

\* A group another tool left in the account: any subset of the default rules.
LeftRules == {<<>>, <<SshPort>>, <<HttpsPort>>, <<DefaultApiPort>>,
              <<SshPort, HttpsPort>>, <<SshPort, DefaultApiPort>>,
              <<HttpsPort, DefaultApiPort>>,
              <<SshPort, HttpsPort, DefaultApiPort>>}

LeftGroups ==
    {<<>>} \cup {<<[region |-> "us-west-2", name |-> "grobid-sg", rules |-> r]>> :
                    r \in LeftRules}

\* The group named "default" that every default VPC comes with.
RECURSIVE DefaultGroups(_)
DefaultGroups(regions) ==
    IF regions = {} THEN <<>>
    ELSE LET r == CHOOSE x \in regions : TRUE
         IN  <<[region |-> r, name |-> "default", rules |-> <<>>]>>
                 \o DefaultGroups(regions \ {r})

InitLaunches ==
    /\ instances = <<>>
    /\ pc = [p \in Callers |-> "idle"]
    /\ args = [p \in Callers |-> CHOOSE r \in DefaultRequests : TRUE]
    /\ security_group_id = [p \in Callers |-> 0]
    /\ vm_image_id = [p \in Callers |-> ""]
    /\ instance = [p \in Callers |-> NoInstance]
    /\ err = [p \in Callers |-> ""]
    /\ result = [p \in Callers |-> NoResult]
    /\ stages = [p \in Callers |-> <<>>]
    /\ calls = [p \in Callers |-> <<>>]
    /\ launches = 0
    /\ package = "unloaded"

Step(p) ==
    \/ get_default_vpc_id(p)
    \/ create_security_group(p)
    \/ describe_security_groups(p)
    \/ add_security_group_rules(p)
    \/ launch_instance(p)
    \/ create_instances(p)
    \/ wait_until_running(p)
    \/ load(p)
    \/ Return(p)

Provider == \E i \in DOMAIN instances : InstanceRuns(i) \/ InstanceFails(i)

\* Launches of two callers with the default arguments but for the port, at
\* once or in turn, in an account that holds no group of the name yet.
Init ==
    /\ vpcs \in {{"us-west-2"}, {}}
    /\ ami_data = TableFull
    /\ groups = DefaultGroups(vpcs)
    /\ InitLaunches

Next ==
    \/ ImportPackage
    \/ \E p \in Callers : (\E req \in DefaultRequests : Call(p, req)) \/ Step(p)
    \/ Provider

Spec == Init /\ [][Next]_vars

\* One launch with any request, any image table, and any group left in the
\* account.
InitOne ==
    /\ vpcs \in {Regions, {"us-west-2"}}
    /\ ami_data \in AmiTables
    /\ groups \in {DefaultGroups(vpcs) \o left : left \in LeftGroups}
    /\ InitLaunches

NextOne ==
    \/ ImportPackage
    \/ (\E req \in AllRequests : launches = 0 /\ Call("a", req)) \/ Step("a")
    \/ Provider

SpecOne == InitOne /\ [][NextOne]_vars

-----------------------------------------------------------------------------
(* Launch order *)

IsPrefix(s, t) == Len(s) <= Len(t) /\ \A i \in DOMAIN s : s[i] = t[i]

\* The least position of an entry of the log for the request api, 0 without one.
FirstRequest(log, api) ==
    IF \E i \in DOMAIN log : log[i].api = api
    THEN CHOOSE i \in DOMAIN log :
            /\ log[i].api = api
            /\ \A j \in DOMAIN log : log[j].api = api => i <= j
    ELSE 0

StageOrder ==
    <<"security-group-ready", "rules-ready", "image-resolved", "launch-submitted",
      "running", "reloaded", "details-returned">>

\* C1: the stages of every launch are passed in the one fixed order, none
\* skipped and none repeated; details are returned only after every stage, for
\* an instance the provider reports as running; and the create-instance request
\* is issued only after the authorize request has been answered.
C1_StagesInOrder ==
    \A p \in Callers :
        /\ IsPrefix(stages[p], StageOrder)
        /\ result[p] # NoResult =>
              /\ stages[p] = StageOrder
              /\ instances[result[p].instance_id].state = "running"
        /\ FirstRequest(calls[p], "RunInstances") # 0 =>
              /\ FirstRequest(calls[p], "AuthorizeSecurityGroupIngress") # 0
              /\ FirstRequest(calls[p], "AuthorizeSecurityGroupIngress")
                    < FirstRequest(calls[p], "RunInstances")
              /\ IsPrefix(<<"security-group-ready", "rules-ready", "image-resolved">>,
                          stages[p])

\* A launch has returned its details while another launch failed on the way.
C1_Witness ==
    \E p, q \in Callers :
        /\ result[p] # NoResult
        /\ pc[p] = "done"
        /\ pc[q] = "failed"
        /\ stages[q] = <<"security-group-ready", "rules-ready", "image-resolved",
                         "launch-submitted">>

-----------------------------------------------------------------------------
(* Security groups *)

\* The launch has its group id: create_security_group has returned.
HasGroup(p) == security_group_id[p] # 0

SameGroupName(p, q) ==
    /\ args[p].region = args[q].region
    /\ args[p].security_group_name = args[q].security_group_name

Requested(p, api) == FirstRequest(calls[p], api) # 0

\* C2: calls of create_security_group with one name return one and the same
\* group id, the provider holds one group of that name and no more, and no call
\* raises the duplicate error of the provider.
C2_CreateSecurityGroupIdempotent ==
    /\ \A p, q \in Callers :
          HasGroup(p) /\ HasGroup(q) /\ SameGroupName(p, q)
              => security_group_id[p] = security_group_id[q]
    /\ \A p \in Callers :
          /\ HasGroup(p) =>
                GroupsNamed(args[p].region, args[p].security_group_name)
                    = {security_group_id[p]}
          /\ err[p] # "InvalidGroup.Duplicate"
          /\ (pc[p] = "failed" /\ ~HasGroup(p) /\ args[p].region \in vpcs)
                => calls[p][Len(calls[p])].code = "RequestError"

\* A later call with the name of an earlier one has returned the id the earlier
\* call returned, after the earlier launch had ended.
C2_Witness ==
    \E p, q \in Callers :
        /\ p # q
        /\ SameGroupName(p, q)
        /\ pc[p] \in {"done", "failed"}
        /\ HasGroup(p)
        /\ calls[q] = <<[api |-> "DescribeVpcs", code |-> "ok"],
                        [api |-> "CreateSecurityGroup", code |-> "InvalidGroup.Duplicate"],
                        [api |-> "DescribeSecurityGroups", code |-> "ok"]>>
        /\ security_group_id[q] = security_group_id[p]

ThreeRules(p) == {SshPort, HttpsPort, args[p].api_port}

GroupRules(p) == groups[security_group_id[p]].rules

NoRuleTwice(rules) ==
    \A i, j \in DOMAIN rules : rules[i] = rules[j] => i = j

\* A step of add_security_group_rules of launch p.
AuthorizeStep(p) ==
    pc[p] = "add_security_group_rules" /\ pc'[p] # "add_security_group_rules"

\* C3: add_security_group_rules on a group that holds the same three rules
\* returns without raising and leaves the rules of every group as they are; a
\* group never holds a rule twice.
C3_AddRulesIdempotent ==
    /\ [][\A p \in Callers :
            (AuthorizeStep(p) /\ Range(GroupRules(p)) = ThreeRules(p)
                /\ calls'[p][Len(calls'[p])].code # "RequestError")
              => /\ pc'[p] = "launch_instance"
                 /\ err'[p] = ""
                 /\ groups' = groups]_vars
    /\ [](\A g \in DOMAIN groups : NoRuleTwice(groups[g].rules))

\* Two launches have authorized the same three rules on one group.
C3_Witness ==
    \E p, q \in Callers :
        /\ p # q
        /\ HasGroup(p)
        /\ security_group_id[p] = security_group_id[q]
        /\ args[p].api_port = args[q].api_port
        /\ calls[p][Len(calls[p])] =
              [api |-> "AuthorizeSecurityGroupIngress", code |-> "ok"]
        /\ calls[q][Len(calls[q])] =
              [api |-> "AuthorizeSecurityGroupIngress",
               code |-> "InvalidPermission.Duplicate"]
        /\ pc[q] = "launch_instance"

\* C4: once add_security_group_rules has returned, the group holds the three
\* rules of the call.
C4_RulesPresentAfterReturn ==
    \A p \in Callers :
        (HasGroup(p) /\ "rules-ready" \in Range(stages[p]))
            => ThreeRules(p) \subseteq Range(GroupRules(p))

\* A step of create_security_group of launch p that the provider answers with
\* its duplicate error.
DuplicateStep(p) ==
    /\ pc[p] = "create_security_group"
    /\ pc'[p] # "create_security_group"
    /\ calls'[p][Len(calls'[p])].code = "InvalidGroup.Duplicate"

LookupStep(p) ==
    /\ pc[p] = "csg_describe"
    /\ pc'[p] # "csg_describe"
    /\ calls'[p][Len(calls'[p])].code = "ok"

\* C10: whatever the interleaving of the launches, a name never gets a second
\* group; the launch the provider answers with the duplicate error does not
\* fail but looks the group up; and the lookup returns the group of that name,
\* so that launches with one name work on one group.
C10_RaceOnGroupName ==
    /\ [][\A p \in Callers :
            /\ DuplicateStep(p) => (pc'[p] = "csg_describe" /\ err'[p] = "")
            /\ LookupStep(p) =>
                  /\ pc'[p] = "add_security_group_rules"
                  /\ groups'[security_group_id'[p]].name = args[p].security_group_name
                  /\ groups'[security_group_id'[p]].region = args[p].region]_vars
    /\ [](\A g, h \in DOMAIN groups :
            (groups[g].region = groups[h].region /\ groups[g].name = groups[h].name)
                => g = h)

\* Two launches with one name are under way at once, the group created by one
\* and looked up by the other, and both hold its id.
C10_Witness ==
    \E p, q \in Callers :
        /\ p # q
        /\ SameGroupName(p, q)
        /\ pc[p] = "add_security_group_rules"
        /\ pc[q] = "add_security_group_rules"
        /\ calls[p][Len(calls[p])] = [api |-> "CreateSecurityGroup", code |-> "ok"]
        /\ calls[q][Len(calls[q])] = [api |-> "DescribeSecurityGroups", code |-> "ok"]
        /\ security_group_id[p] = security_group_id[q]
        /\ Cardinality(GroupsNamed(args[p].region, args[p].security_group_name)) = 1

-----------------------------------------------------------------------------
(* Image selection *)

RowsOf(region, arch) ==
    {i \in DOMAIN ami_data :
        ami_data[i].region = region /\ ami_data[i].arch = arch}

HasBothRows(region) ==
    RowsOf(region, "arm64") # {} /\ RowsOf(region, "amd64") # {}

\* The image id of the first row of the table for the region and architecture.
ImageOf(region, arch) ==
    ami_data[CHOOSE i \in RowsOf(region, arch) :
                \A j \in RowsOf(region, arch) : i <= j].ami_id

\* The ARM marker "g" stands in the instance type before its first ".".
FamilyHasMarker(t) ==
    \E i \in DOMAIN t : t[i] = "g" /\ \A j \in 1 .. i : t[j] # "."

\* The launch has submitted its create-instance request.
Submitted(p) == instance[p].id # 0

\* C5: in a region with a row of either architecture, the instance is created
\* from the arm64 image of the region when the family prefix of the instance
\* type holds the marker, and from the amd64 image of the region otherwise.
C5_ImageMatchesFamily ==
    \A p \in Callers :
        (Submitted(p) /\ HasBothRows(args[p].region)) =>
            /\ instances[instance[p].id].image_id =
                  ImageOf(args[p].region,
                          IF FamilyHasMarker(args[p].instance_type)
                          THEN "arm64" ELSE "amd64")
            /\ \E i \in DOMAIN ami_data :
                  /\ ami_data[i].region = args[p].region
                  /\ ami_data[i].ami_id = instances[instance[p].id].image_id

\* An instance type with the marker only after the "." was created from the
\* amd64 image, in the table whose first row belongs to the other region.
C5_Witness ==
    \E p \in Callers :
        /\ Submitted(p)
        /\ ami_data = TablePartial
        /\ args[p].region = "us-west-2"
        /\ args[p].instance_type = M6a4xlarge
        /\ instances[instance[p].id].image_id = "ami-usw2-amd64"

\* C6: the create-security-group request is issued only in a region with a
\* default VPC and a launch that failed for want of one has not issued it; the
\* create-instance request is issued only with an image of the table and a
\* launch that failed for want of one has not issued it and has no instance.
C6_PreconditionsBeforeRequests ==
    \A p \in Callers :
        /\ Requested(p, "CreateSecurityGroup") => args[p].region \in vpcs
        /\ err[p] = "ValueError: No default VPC found in this region" =>
              /\ ~Requested(p, "CreateSecurityGroup")
              /\ pc[p] = "failed"
        /\ Requested(p, "RunInstances") =>
              RowsOf(args[p].region,
                     IF FamilyHasMarker(args[p].instance_type)
                     THEN "arm64" ELSE "amd64") # {}
        /\ err[p] = "ValueError: No AMI found" =>
              /\ ~Requested(p, "RunInstances")
              /\ ~Submitted(p)
              /\ \A i \in DOMAIN instances : instances[i].group # security_group_id[p]
              /\ pc[p] = "failed"

\* A launch has failed for want of an image after its group was made ready.
C6_Witness ==
    \E p \in Callers :
        /\ err[p] = "ValueError: No AMI found"
        /\ stages[p] = <<"security-group-ready", "rules-ready">>
        /\ instances = <<>>

-----------------------------------------------------------------------------
(* Result and failure *)

\* C7: the api_url of a returned result is "http://", the public_ip of the
\* same result, ":" and the api_port of the launch; the public_ip is the
\* address the provider gave the running instance; and the instance_type is
\* the one requested.
C7_ResultFields ==
    \A p \in Callers :
        pc[p] = "done" =>
            /\ result[p].api_url =
                  <<"http://", result[p].public_ip, ":", args[p].api_port>>
            /\ result[p].public_ip = instances[result[p].instance_id].public_ip_address
            /\ result[p].public_ip # None
            /\ result[p].instance_type = args[p].instance_type

\* The launch of the defaults has returned http://<public-ip>:8060.
C7_Witness ==
    \E p \in Callers :
        /\ pc[p] = "done"
        /\ args[p].region = "us-west-2"
        /\ args[p].instance_type = M6a4xlarge
        /\ result[p].api_url = <<"http://", PublicIp(1), ":", DefaultApiPort>>

SwallowedCodes == {"ok", "InvalidGroup.Duplicate", "InvalidPermission.Duplicate"}

CleanupRequests ==
    {"TerminateInstances", "DeleteSecurityGroup", "RevokeSecurityGroupIngress",
     "StopInstances"}

\* C8: an answer of the provider that is an error other than the two duplicate
\* codes is the last request of its launch, which has failed with an error for
\* the caller; so has a launch with a precondition or wait failure; a failed
\* launch stays failed, passes no further stage and issues no further request
\* (until its caller enters a new launch);
\* no launch issues a delete or terminate request; and no step removes a group
\* or an instance.
C8_FailureAbortsWithoutCleanup ==
    /\ [](\A p \in Callers :
            /\ \A i \in DOMAIN calls[p] :
                  /\ calls[p][i].api \notin CleanupRequests
                  /\ calls[p][i].code \notin SwallowedCodes =>
                        (i = Len(calls[p]) /\ pc[p] = "failed")
            /\ err[p] # "" <=> pc[p] = "failed"
            /\ pc[p] = "failed" => (result[p] = NoResult /\ ~("details-returned" \in Range(stages[p]))))
    /\ [][/\ \A p \in Callers :
              pc[p] = "failed" =>
                  \/ /\ pc'[p] = "failed"
                     /\ err'[p] = err[p]
                     /\ stages'[p] = stages[p]
                     /\ calls'[p] = calls[p]
                  \/ /\ launches' = launches + 1
                     /\ pc'[p] = "get_default_vpc_id"
                     /\ calls'[p] = <<>>
          /\ Len(groups') >= Len(groups)
          /\ \A g \in DOMAIN groups :
                /\ groups'[g].name = groups[g].name
                /\ groups'[g].region = groups[g].region
                /\ Range(groups[g].rules) \subseteq Range(groups'[g].rules)
          /\ Len(instances') >= Len(instances)
          /\ \A i \in DOMAIN instances :
                (instances'[i].state # instances[i].state) => instances[i].state = "pending"]_vars

\* The wait has failed: the launch has ended with the error while its group
\* and its instance are still there.
C8_Witness ==
    \E p \in Callers :
        /\ pc[p] = "failed"
        /\ err[p] = "WaiterError"
        /\ Submitted(p)
        /\ instances[instance[p].id].state = "pending"
        /\ groups[security_group_id[p]].name = args[p].security_group_name
        /\ ThreeRules(p) \subseteq Range(GroupRules(p))

-----------------------------------------------------------------------------
(* Package *)

\* C9: once the package has been imported, it is loaded and offers
\* terminate_instance.
C9_TerminateExposed ==
    package # "unloaded" =>
        (package = "loaded" /\ "terminate_instance" \in CoreNames)

====
